---- MODULE Spec2Model ----
(***************************************************************************)
(* Model of backend/config.py and backend/services/reddit_service.py.      *)
(*                                                                         *)
(* Python strings that the code inspects are sequences of one-character    *)
(* strings; an Optional[str] (the result of os.getenv) is a record         *)
(* [some, val].  Log messages and exception messages are sequences of      *)
(* tokens, the way the f-strings and ', '.join build them.  Floats of      *)
(* config.py are kept in hundredths (0.75 is 75).                          *)
(***************************************************************************)
EXTENDS Integers, Sequences, FiniteSets, TLC

VARIABLES
    env,            \* the process environment after load_dotenv (read-only)
    config,         \* the backend.config module: state and its constants
    service,        \* the reddit_service module: "unimported", "loaded", "failed"
    importExc,      \* the exception an import statement raised to the importer
    reddit_client,  \* the module-level name reddit_client
    assignments,    \* number of assignments made to reddit_client
    log,            \* records emitted through logger, in order
    last,           \* the last completed call: function, arguments, what praw.Reddit
                    \* would do if invoked, the events of the call, and its result
    calls           \* number of calls made after the import

vars == <<env, config, service, importExc, reddit_client, assignments, log, last, calls>>

-----------------------------------------------------------------------------
(* Bounds of the model *)

MaxCalls == 2       \* calls made on the loaded module
MaxPortLen == 2     \* length of the PORT environment string

-----------------------------------------------------------------------------
(* Python values *)

None == [some |-> FALSE, val |-> <<>>]
Some(s) == [some |-> TRUE, val |-> s]

PyNone == [tag |-> "None"]
Unbound == [tag |-> "unbound"]
NoExc == [type |-> "", msg |-> <<>>]

Truthy_OnlyNoneIsFalsy(x) == x.some

\* bool(x) for an Optional[str]: None and '' are falsy
Truthy(x) == x.some /\ x.val # <<>>

\* isinstance(exception of class type, cls), over the classes involved
IsInstance(type, cls) ==
    \/ type = cls
    \/ cls = "Exception" /\ type \in {"ValueError", "PRAWException", "ClientException", "NoSectionError"}
    \/ cls = "PRAWException" /\ type = "ClientException"

-----------------------------------------------------------------------------
(* config.py *)

SUBREDDITS == <<"SideProject", "learnprogramming", "vibecoding", "ChatGPTCoding", "webdev">>
REFRESH_INTERVAL_HOURS == 48
MAX_POSTS_PER_SUBREDDIT == 50
BASE_SIMILARITY_THRESHOLD == 75
MinThreshold_AboveBase == BASE_SIMILARITY_THRESHOLD + 5
MIN_SIMILARITY_THRESHOLD == 65
MAX_SIMILARITY_THRESHOLD == 85
DEFAULT_MAX_RECOMMENDATIONS == 10
MIN_RECOMMENDATIONS == 5
MAX_RECOMMENDATIONS == 20
RESULT_MODE_FIXED == "fixed"
RESULT_MODE_THRESHOLD == "threshold"
DEFAULT_RESULT_MODE == RESULT_MODE_FIXED
REDDIT_RATE_LIMIT == 60
DEFAULT_PORT == 5000

Digits == <<"0", "1", "2", "3", "4", "5", "6", "7", "8", "9">>
IsDigit(c) == \E i \in 1..Len(Digits) : Digits[i] = c
DigitValue(c) == (CHOOSE i \in 1..Len(Digits) : Digits[i] = c) - 1

RECURSIVE DecimalValue(_)
DecimalValue(s) ==
    IF s = <<>> THEN 0
    ELSE 10 * DecimalValue(SubSeq(s, 1, Len(s) - 1)) + DigitValue(s[Len(s)])

\* int(s) for a str s: a non-empty run of decimal digits converts, anything
\* else over the alphabet used here raises ValueError
PyInt(s) ==
    IF s # <<>> /\ \A i \in 1..Len(s) : IsDigit(s[i])
    THEN [raised |-> FALSE, val |-> DecimalValue(s)]
    ELSE [raised |-> TRUE, val |-> 0]

\* PORT = int(os.getenv('PORT', 5000))
ConfigPort(e) ==
    IF e["PORT"].some THEN PyInt(e["PORT"].val)
    ELSE [raised |-> FALSE, val |-> DEFAULT_PORT]

UnimportedConfig ==
    [state |-> "unimported",
     REDDIT_CLIENT_ID |-> None, REDDIT_CLIENT_SECRET |-> None, REDDIT_USER_AGENT |-> None,
     SUBREDDITS |-> <<>>, PORT |-> 0,
     REFRESH_INTERVAL_HOURS |-> 0, MAX_POSTS_PER_SUBREDDIT |-> 0,
     BASE_SIMILARITY_THRESHOLD |-> 0, MIN_SIMILARITY_THRESHOLD |-> 0,
     MAX_SIMILARITY_THRESHOLD |-> 0,
     DEFAULT_MAX_RECOMMENDATIONS |-> 0, MIN_RECOMMENDATIONS |-> 0, MAX_RECOMMENDATIONS |-> 0,
     RESULT_MODE_FIXED |-> "", RESULT_MODE_THRESHOLD |-> "", DEFAULT_RESULT_MODE |-> "",
     REDDIT_RATE_LIMIT |-> 0]

\* Executing the body of config.py: the module exists only if no line raises
LoadConfig(e) ==
    LET port == ConfigPort(e) IN
    IF port.raised
    THEN [UnimportedConfig EXCEPT !.state = "failed"]
    ELSE [state |-> "loaded",
          REDDIT_CLIENT_ID |-> e["REDDIT_CLIENT_ID"],
          REDDIT_CLIENT_SECRET |-> e["REDDIT_CLIENT_SECRET"],
          REDDIT_USER_AGENT |-> e["REDDIT_USER_AGENT"],
          SUBREDDITS |-> SUBREDDITS, PORT |-> port.val,
          REFRESH_INTERVAL_HOURS |-> REFRESH_INTERVAL_HOURS,
          MAX_POSTS_PER_SUBREDDIT |-> MAX_POSTS_PER_SUBREDDIT,
          BASE_SIMILARITY_THRESHOLD |-> BASE_SIMILARITY_THRESHOLD,
          MIN_SIMILARITY_THRESHOLD |-> MIN_SIMILARITY_THRESHOLD,
          MAX_SIMILARITY_THRESHOLD |-> MAX_SIMILARITY_THRESHOLD,
          DEFAULT_MAX_RECOMMENDATIONS |-> DEFAULT_MAX_RECOMMENDATIONS,
          MIN_RECOMMENDATIONS |-> MIN_RECOMMENDATIONS,
          MAX_RECOMMENDATIONS |-> MAX_RECOMMENDATIONS,
          RESULT_MODE_FIXED |-> RESULT_MODE_FIXED,
          RESULT_MODE_THRESHOLD |-> RESULT_MODE_THRESHOLD,
          DEFAULT_RESULT_MODE |-> DEFAULT_RESULT_MODE,
          REDDIT_RATE_LIMIT |-> REDDIT_RATE_LIMIT]

-----------------------------------------------------------------------------
(* reddit_service.py: initialize_reddit_client *)

Return(v) == [kind |-> "return", val |-> v, exc |-> NoExc]
Raise(type, msg) == [kind |-> "raise", val |-> PyNone, exc |-> [type |-> type, msg |-> msg]]

LogEvent(level, msg) == [kind |-> "log", tag |-> level, msg |-> msg]
CallEvent(fn) == [kind |-> "call", tag |-> fn, msg |-> <<>>]
IsLog(ev) == ev.kind = "log"

\* sep.join(xs), as the sequence of its pieces
RECURSIVE Join(_, _)
Join(sep, xs) ==
    IF xs = <<>> THEN <<>>
    ELSE IF Len(xs) = 1 THEN <<xs[1]>>
    ELSE <<xs[1], sep>> \o Join(sep, Tail(xs))

\* all([REDDIT_CLIENT_ID, REDDIT_CLIENT_SECRET, REDDIT_USER_AGENT])
AllCredentials(cfg) ==
    Truthy(cfg.REDDIT_CLIENT_ID) /\ Truthy(cfg.REDDIT_CLIENT_SECRET) /\ Truthy(cfg.REDDIT_USER_AGENT)

MissingCreds_SkipsUserAgent(cfg) ==
    (IF ~Truthy(cfg.REDDIT_CLIENT_ID) THEN <<"REDDIT_CLIENT_ID">> ELSE <<>>)
    \o (IF ~Truthy(cfg.REDDIT_CLIENT_SECRET) THEN <<"REDDIT_CLIENT_SECRET">> ELSE <<>>)

\* missing_creds after the three appends
MissingCreds(cfg) ==
    (IF ~Truthy(cfg.REDDIT_CLIENT_ID) THEN <<"REDDIT_CLIENT_ID">> ELSE <<>>)
    \o (IF ~Truthy(cfg.REDDIT_CLIENT_SECRET) THEN <<"REDDIT_CLIENT_SECRET">> ELSE <<>>)
    \o (IF ~Truthy(cfg.REDDIT_USER_AGENT) THEN <<"REDDIT_USER_AGENT">> ELSE <<>>)

MissingPrefix == "Missing required Reddit credentials: "

\* error_msg
ErrorMsg(cfg) == <<MissingPrefix>> \o Join(", ", MissingCreds(cfg))

RejectMissing_RaisesBeforeLogging(cfg) ==
    [events |-> <<>>, result |-> Raise("ValueError", ErrorMsg(cfg))]

\* The branch taken when a credential is missing: log, then raise
RejectMissing(cfg) ==
    [events |-> <<LogEvent("error", ErrorMsg(cfg))>>,
     result |-> Raise("ValueError", ErrorMsg(cfg))]

\* What praw.Reddit(**kwargs) can do; the library decides, not this code
PrawOutcomes == {"ok", "PRAWException", "ClientException", "NoSectionError"}

\* praw.Reddit(client_id=..., client_secret=..., user_agent=...): a handle
\* is read-only when it is given no user credentials
PrawReddit(kwargs, outcome) ==
    IF outcome = "ok"
    THEN Return([tag |-> "Reddit",
                 client_id |-> kwargs.client_id,
                 client_secret |-> kwargs.client_secret,
                 user_agent |-> kwargs.user_agent,
                 read_only |-> ~(\E k \in DOMAIN kwargs : k \in {"username", "password", "refresh_token"})])
    ELSE Raise(outcome, <<"praw: ", outcome>>)

BoolStr(b) == IF b THEN "True" ELSE "False"

ConstructClient_SwapsCredentials(cfg, outcome) ==
    LET reddit == PrawReddit([client_id |-> cfg.REDDIT_CLIENT_SECRET.val,
                              client_secret |-> cfg.REDDIT_CLIENT_ID.val,
                              user_agent |-> cfg.REDDIT_USER_AGENT.val], outcome)
        before == <<LogEvent("info", <<"Initializing Reddit client with read-only authentication">>),
                    CallEvent("praw.Reddit")>>
    IN  IF reddit.kind = "return"
        THEN [events |-> before \o
                  <<LogEvent("info", <<"Reddit client initialized. Read-only: ",
                                       BoolStr(reddit.val.read_only)>>)>>,
              result |-> reddit]
        ELSE [events |-> before, result |-> reddit]

\* The construction, after validation passed: lines 78-87
ConstructClient(cfg, outcome) ==
    LET reddit == PrawReddit([client_id |-> cfg.REDDIT_CLIENT_ID.val,
                              client_secret |-> cfg.REDDIT_CLIENT_SECRET.val,
                              user_agent |-> cfg.REDDIT_USER_AGENT.val], outcome)
        before == <<LogEvent("info", <<"Initializing Reddit client with read-only authentication">>),
                    CallEvent("praw.Reddit")>>
    IN  IF reddit.kind = "return"
        THEN [events |-> before \o
                  <<LogEvent("info", <<"Reddit client initialized. Read-only: ",
                                       BoolStr(reddit.val.read_only)>>)>>,
              result |-> reddit]
        ELSE [events |-> before, result |-> reddit]

TryBody_ConstructsFirst(cfg, outcome) ==
    LET built == ConstructClient(cfg, outcome)
    IN  IF built.result.kind = "raise" THEN built
        ELSE IF ~AllCredentials(cfg)
        THEN [events |-> built.events \o RejectMissing(cfg).events, result |-> RejectMissing(cfg).result]
        ELSE built

\* The body of the try statement
TryBody(cfg, outcome) ==
    IF ~AllCredentials(cfg) THEN RejectMissing(cfg) ELSE ConstructClient(cfg, outcome)

ExceptHandler_Swallows(r) ==
    IF /\ r.result.kind = "raise"
       /\ (IsInstance(r.result.exc.type, "PRAWException") \/ IsInstance(r.result.exc.type, "ClientException"))
    THEN [events |-> r.events \o
              <<LogEvent("error", <<"Failed to initialize Reddit client: ">> \o r.result.exc.msg)>>,
          result |-> Return(PyNone)]
    ELSE r

\* except (PRAWException, ClientException) as e: log and re-raise
ExceptHandler(r) ==
    IF /\ r.result.kind = "raise"
       /\ (IsInstance(r.result.exc.type, "PRAWException") \/ IsInstance(r.result.exc.type, "ClientException"))
    THEN [events |-> r.events \o
              <<LogEvent("error", <<"Failed to initialize Reddit client: ">> \o r.result.exc.msg)>>,
          result |-> r.result]
    ELSE r

InitializeRedditClient(cfg, outcome) == ExceptHandler(TryBody(cfg, outcome))

\* The module-level try/except around the load-time call
LoadTimeClient(call) ==
    IF call.result.kind = "return"
    THEN [raised |-> FALSE, client |-> call.result.val, events |-> call.events]
    ELSE IF IsInstance(call.result.exc.type, "Exception")
    THEN [raised |-> FALSE, client |-> PyNone,
          events |-> call.events \o
              <<LogEvent("error", <<"Could not initialize Reddit client on module load: ">>
                                   \o call.result.exc.msg)>>]
    ELSE [raised |-> TRUE, client |-> Unbound, events |-> call.events]

-----------------------------------------------------------------------------
(* reddit_service.py: the three stubs *)

Omitted == [tag |-> "omitted"]
Bind(arg, default) == IF arg = Omitted THEN default ELSE arg

ScrapeSubreddits(subreddits, limit) == Return(PyNone)
ProcessPosts_RejectsEmpty(posts) ==
    IF posts = [tag |-> "list", items |-> <<>>]
    THEN Raise("ValueError", <<"posts is empty">>)
    ELSE Return(PyNone)
ProcessPosts(posts) == Return(PyNone)
ScheduleRefresh == Return(PyNone)

SubredditArgs ==
    {Omitted, PyNone, [tag |-> "list", items |-> <<>>],
     [tag |-> "list", items |-> <<"SideProject", "webdev">>], [tag |-> "int", val |-> 7]}
LimitArgs == {Omitted, PyNone, [tag |-> "int", val |-> 50], [tag |-> "str", chars |-> <<"x">>]}
PostsArgs ==
    {PyNone, [tag |-> "list", items |-> <<>>],
     [tag |-> "list", items |-> <<"not a dict">>], [tag |-> "int", val |-> 7]}

-----------------------------------------------------------------------------
(* The state machine *)

PortChars == {"8", "x"}
RECURSIVE StringsUpTo(_)
StringsUpTo(n) ==
    IF n = 0 THEN {<<>>}
    ELSE LET shorter == StringsUpTo(n - 1)
         IN  shorter \cup {Append(s, c) : s \in {t \in shorter : Len(t) = n - 1}, c \in PortChars}

CredentialValues == {None, Some(<<>>), Some(<<"k">>), Some(<<"s", "k">>)}
PortValues == {None} \cup {Some(s) : s \in StringsUpTo(MaxPortLen)}

NoCall == [fn |-> "", args |-> <<>>, outcome |-> "", events |-> <<>>, result |-> Return(PyNone)]

Logs(events) == SelectSeq(events, IsLog)

Init ==
    /\ env \in {[REDDIT_CLIENT_ID |-> a, REDDIT_CLIENT_SECRET |-> b, REDDIT_USER_AGENT |-> c, PORT |-> p] :
                    a \in CredentialValues, b \in CredentialValues,
                    c \in CredentialValues, p \in PortValues}
    /\ config = UnimportedConfig
    /\ service = "unimported"
    /\ importExc = NoExc
    /\ reddit_client = Unbound
    /\ assignments = 0
    /\ log = <<>>
    /\ last = NoCall
    /\ calls = 0

\* import backend.config, by some other module, before the service is imported
ImportConfig ==
    /\ config.state = "unimported"
    /\ service = "unimported"
    /\ config' = LoadConfig(env)
    /\ importExc' = IF config'.state = "failed" THEN [type |-> "ValueError", msg |-> <<"invalid literal for int()">>] ELSE NoExc
    /\ UNCHANGED <<env, service, reddit_client, assignments, log, last, calls>>

\* import backend.services.reddit_service: the whole module body
ImportRedditService ==
    /\ service = "unimported"
    /\ LET cfg == IF config.state = "loaded" THEN config ELSE LoadConfig(env) IN
       /\ config' = cfg
       /\ IF cfg.state = "failed"
          THEN /\ service' = "failed"
               /\ importExc' = [type |-> "ValueError", msg |-> <<"invalid literal for int()">>]
               /\ UNCHANGED <<reddit_client, assignments, log, last>>
          ELSE \E outcome \in PrawOutcomes :
                  LET call == InitializeRedditClient(cfg, outcome)
                      load == LoadTimeClient(call)
                  IN  /\ log' = log \o Logs(load.events)
                      /\ last' = [fn |-> "import", args |-> <<>>, outcome |-> outcome, events |-> call.events, result |-> call.result]
                      /\ IF load.raised
                         THEN /\ service' = "failed"
                              /\ importExc' = call.result.exc
                              /\ UNCHANGED <<reddit_client, assignments>>
                         ELSE /\ service' = "loaded"
                              /\ importExc' = NoExc
                              /\ reddit_client' = load.client
                              /\ assignments' = assignments + 1
    /\ UNCHANGED <<env, calls>>

\* A caller invokes initialize_reddit_client() on the loaded module
CallInitializeRedditClient ==
    /\ service = "loaded"
    /\ calls < MaxCalls
    /\ \E outcome \in PrawOutcomes :
          LET call == InitializeRedditClient(config, outcome)
          IN  /\ log' = log \o Logs(call.events)
              /\ last' = [fn |-> "initialize_reddit_client", args |-> <<>>, outcome |-> outcome,
                          events |-> call.events, result |-> call.result]
    /\ calls' = calls + 1
    /\ UNCHANGED <<env, config, service, importExc, reddit_client, assignments>>

CallScrapeSubreddits ==
    /\ service = "loaded"
    /\ calls < MaxCalls
    /\ \E subreddits \in SubredditArgs, limit \in LimitArgs :
          last' = [fn |-> "scrape_subreddits", args |-> <<subreddits, limit>>, outcome |-> "", events |-> <<>>,
                   result |-> ScrapeSubreddits(Bind(subreddits, PyNone), Bind(limit, PyNone))]
    /\ calls' = calls + 1
    /\ UNCHANGED <<env, config, service, importExc, reddit_client, assignments, log>>

CallProcessPosts ==
    /\ service = "loaded"
    /\ calls < MaxCalls
    /\ \E posts \in PostsArgs :
          last' = [fn |-> "process_posts", args |-> <<posts>>, outcome |-> "", events |-> <<>>,
                   result |-> ProcessPosts(posts)]
    /\ calls' = calls + 1
    /\ UNCHANGED <<env, config, service, importExc, reddit_client, assignments, log>>

CallScheduleRefresh_Reinitializes ==
    /\ service = "loaded"
    /\ calls < MaxCalls
    /\ last' = [fn |-> "schedule_refresh", args |-> <<>>, outcome |-> "", events |-> <<>>, result |-> ScheduleRefresh]
    /\ calls' = calls + 1
    /\ reddit_client' = IF reddit_client = PyNone
                        THEN InitializeRedditClient(config, "ok").result.val
                        ELSE reddit_client
    /\ assignments' = assignments
    /\ UNCHANGED <<env, config, service, importExc, log>>

CallScheduleRefresh ==
    /\ service = "loaded"
    /\ calls < MaxCalls
    /\ last' = [fn |-> "schedule_refresh", args |-> <<>>, outcome |-> "", events |-> <<>>, result |-> ScheduleRefresh]
    /\ calls' = calls + 1
    /\ UNCHANGED <<env, config, service, importExc, reddit_client, assignments, log>>

Next ==
    \/ ImportConfig
    \/ ImportRedditService
    \/ CallInitializeRedditClient
    \/ CallScrapeSubreddits
    \/ CallProcessPosts
    \/ CallScheduleRefresh

Spec == Init /\ [][Next]_vars

-----------------------------------------------------------------------------
(* Vocabulary of the properties *)

CredNames == <<"REDDIT_CLIENT_ID", "REDDIT_CLIENT_SECRET", "REDDIT_USER_AGENT">>
CredSet == {CredNames[i] : i \in 1..Len(CredNames)}

\* A credential is missing when the environment does not set it or sets it to ''
IsMissing(n) == ~env[n].some \/ env[n].val = <<>>
MissingSet == {n \in CredSet : IsMissing(n)}

\* The last completed call was a call of initialize_reddit_client: the
\* load-time call of the import, or a direct call on the loaded module
LastIsInitialize == last.fn \in {"import", "initialize_reddit_client"}

NotSeparator(t) == t # ", "
\* The names an error message lists after its prefix
NamesListed(msg) == IF msg = <<>> THEN <<>> ELSE SelectSeq(Tail(msg), NotSeparator)
SeqRange(xs) == {xs[i] : i \in 1..Len(xs)}

RaisedValueError == last.result.kind = "raise" /\ last.result.exc.type = "ValueError"
ConstructorCalls == SelectSeq(last.events, LAMBDA ev : ev = CallEvent("praw.Reddit"))
StartLog == LogEvent("info", <<"Initializing Reddit client with read-only authentication">>)

-----------------------------------------------------------------------------
(* C1: whenever at least one of the three credentials is missing, a call   *)
(* of initialize_reddit_client raises ValueError and the names its message *)
(* lists are exactly the missing credentials.                              *)
C1_ErrorNamesExactlyMissing ==
    (LastIsInitialize /\ MissingSet # {}) =>
        /\ RaisedValueError
        /\ last.result.exc.msg[1] = MissingPrefix
        /\ SeqRange(NamesListed(last.result.exc.msg)) = MissingSet

C1_Witness ==
    /\ last.fn = "initialize_reddit_client"
    /\ MissingSet = {"REDDIT_CLIENT_ID", "REDDIT_USER_AGENT"}
    /\ RaisedValueError

(* C2, as stated: with all three credentials present, the call returns a   *)
(* read-only client handle and does not raise.                             *)
C2_AlwaysReturnsClient ==
    (LastIsInitialize /\ MissingSet = {}) =>
        /\ last.result.kind = "return"
        /\ last.result.val.tag = "Reddit"
        /\ last.result.val.read_only

(* C2, amended: with all three credentials present, the call invokes       *)
(* praw.Reddit once with exactly those credentials and no user             *)
(* credentials; when the constructor does not raise, the call returns the  *)
(* read-only handle it built, without raising; when it raises, the call    *)
(* raises that exception (never ValueError).                               *)
C2_ReturnsClientUnlessConstructorFails ==
    (LastIsInitialize /\ MissingSet = {}) =>
        /\ Len(ConstructorCalls) = 1
        /\ last.outcome = "ok" =>
              /\ last.result.kind = "return"
              /\ last.result.val.tag = "Reddit"
              /\ last.result.val.read_only
              /\ last.result.val.client_id = env["REDDIT_CLIENT_ID"].val
              /\ last.result.val.client_secret = env["REDDIT_CLIENT_SECRET"].val
              /\ last.result.val.user_agent = env["REDDIT_USER_AGENT"].val
        /\ last.outcome # "ok" =>
              /\ last.result.kind = "raise"
              /\ last.result.exc.type = last.outcome

C2_Witness ==
    /\ last.fn = "initialize_reddit_client"
    /\ MissingSet = {}
    /\ last.result.kind = "return"
    /\ last.result.val.read_only

(* C3: importing reddit_service never raises, whatever the credentials,    *)
(* and a failed load-time call leaves reddit_client equal to None.         *)
C3_ImportNeverRaises ==
    /\ service # "failed"
    /\ (service = "loaded" /\ last.fn = "import" /\ last.result.kind = "raise")
           => reddit_client = PyNone

C5_LogsThenRaisesSameMessage ==
    (LastIsInitialize /\ MissingSet # {}) =>
        /\ RaisedValueError
        /\ last.result.exc.msg[1] = MissingPrefix
        /\ last.events = <<LogEvent("error", last.result.exc.msg)>>

C5_Witness ==
    /\ last.fn = "import"
    /\ MissingSet = {"REDDIT_CLIENT_SECRET"}
    /\ RaisedValueError
    /\ Len(last.events) = 1

(* C6: reddit_client is assigned exactly once, by the import, and nothing  *)
(* done on the loaded module changes it afterwards.                        *)
C6_ClientAssignedOnce ==
    /\ [](service = "loaded" => assignments = 1)
    /\ [](service # "loaded" => (assignments = 0 /\ reddit_client = Unbound))
    /\ [][service = "loaded" => (reddit_client' = reddit_client /\ assignments' = assignments)]_vars

C6_Witness ==
    /\ service = "loaded"
    /\ reddit_client = PyNone
    /\ calls >= 2
    /\ last.fn = "schedule_refresh"

(* C7: with all credentials present, a PRAWException or ClientException    *)
(* from the constructor is logged by the function and re-raised unchanged; *)
(* at import the wrapper catches it (and any other exception of the call), *)
(* logs it once more, and leaves reddit_client as None.                    *)
C7_ConstructionFailureDegrades ==
    (LastIsInitialize /\ MissingSet = {} /\ last.outcome # "ok") =>
        LET e == last.result.exc
            handled == e.type \in {"PRAWException", "ClientException"}
            own == <<LogEvent("error", <<"Failed to initialize Reddit client: ">> \o e.msg)>>
            expected == <<StartLog, CallEvent("praw.Reddit")>> \o (IF handled THEN own ELSE <<>>)
        IN  /\ last.result.kind = "raise"
            /\ e = [type |-> last.outcome, msg |-> <<"praw: ", last.outcome>>]
            /\ last.events = expected
            /\ last.fn = "import" =>
                  /\ service = "loaded"
                  /\ reddit_client = PyNone
                  /\ log = Logs(expected) \o
                       <<LogEvent("error", <<"Could not initialize Reddit client on module load: ">> \o e.msg)>>

C7_Witness ==
    /\ last.fn = "import"
    /\ MissingSet = {}
    /\ last.result.kind = "raise"
    /\ last.result.exc.type = "ClientException"
    /\ Len(log) = 3

(* C8: validation precedes construction: with a credential missing the     *)
(* constructor is not invoked and the "Initializing" record is not logged; *)
(* the constructor is invoked at most once per call, only with all three   *)
(* credentials present, and after the "Initializing" record.               *)
C8_ValidationBeforeConstruction ==
    LastIsInitialize =>
        /\ MissingSet # {} =>
              /\ ConstructorCalls = <<>>
              /\ \A i \in 1..Len(last.events) : last.events[i] # StartLog
        /\ Len(ConstructorCalls) <= 1
        /\ ConstructorCalls # <<>> =>
              /\ MissingSet = {}
              /\ last.events[1] = StartLog
              /\ last.events[2] = CallEvent("praw.Reddit")

C8_Witness ==
    /\ last.fn = "initialize_reddit_client"
    /\ MissingSet = {"REDDIT_USER_AGENT"}
    /\ RaisedValueError
    /\ ConstructorCalls = <<>>

(* C9: a credential is reported missing exactly when it is unset or the    *)
(* empty string, and the names in the message keep the order               *)
(* REDDIT_CLIENT_ID, REDDIT_CLIENT_SECRET, REDDIT_USER_AGENT, each at most *)
(* once.                                                                   *)
C9_EmptyCountsAsMissingInFixedOrder ==
    LastIsInitialize =>
        LET names == NamesListed(last.result.exc.msg)
        IN  /\ RaisedValueError <=> \E n \in CredSet : ~env[n].some \/ env[n].val = <<>>
            /\ RaisedValueError =>
                  /\ \A n \in CredSet :
                        (\E i \in 1..Len(names) : names[i] = n) <=> (~env[n].some \/ env[n].val = <<>>)
                  /\ names = SelectSeq(CredNames, LAMBDA n : n \in SeqRange(names))

C9_Witness ==
    /\ last.fn = "initialize_reddit_client"
    /\ env["REDDIT_CLIENT_ID"] = Some(<<>>)
    /\ env["REDDIT_CLIENT_SECRET"] = Some(<<"k">>)
    /\ env["REDDIT_USER_AGENT"] = None
    /\ RaisedValueError
    /\ NamesListed(last.result.exc.msg) = <<"REDDIT_CLIENT_ID", "REDDIT_USER_AGENT">>

(* C10: once config is loaded its tuning constants are consistent          *)
(* (min <= base <= max threshold, min <= default <= max recommendations,   *)
(* the default result mode is one of the two modes, five distinct          *)
(* subreddits) and no operation changes them.                              *)
C10_ConstantsConsistentAndFrozen ==
    /\ [](config.state = "loaded" =>
            /\ config.MIN_SIMILARITY_THRESHOLD <= config.BASE_SIMILARITY_THRESHOLD
            /\ config.BASE_SIMILARITY_THRESHOLD <= config.MAX_SIMILARITY_THRESHOLD
            /\ config.MIN_RECOMMENDATIONS <= config.DEFAULT_MAX_RECOMMENDATIONS
            /\ config.DEFAULT_MAX_RECOMMENDATIONS <= config.MAX_RECOMMENDATIONS
            /\ config.DEFAULT_RESULT_MODE \in {config.RESULT_MODE_FIXED, config.RESULT_MODE_THRESHOLD}
            /\ Len(config.SUBREDDITS) = 5
            /\ Cardinality(SeqRange(config.SUBREDDITS)) = 5)
    /\ [][config.state = "loaded" => config' = config]_vars

C10_Witness ==
    /\ config.state = "loaded"
    /\ service = "loaded"
    /\ calls >= 2
    /\ config.BASE_SIMILARITY_THRESHOLD = 75

====
